---- MODULE Spec2Model ----
(***************************************************************************)
(* Beaver-agent: the PII vault (src/src/security.py) and the LangGraph     *)
(* workflow (src/src/graph.py, src/src/agents.py) with its entry points    *)
(* (src/main.py, src/worker.py, src/src/api.py, src/app.py), the API's     *)
(* key check (src/src/api.py) and the leads table (src/src/db.py).         *)
(*                                                                         *)
(* Text is a sequence of symbols.  A symbol is a record [k, ty, id]: an    *)
(* ordinary character has k = the character; a vault token                 *)
(* "[<ENTITY_TYPE>_<id>]" is the three symbols "[", body(ty, id), "]", so  *)
(* that a token has an inside that a later slice can cut through.          *)
(***************************************************************************)
EXTENDS Integers, Sequences, FiniteSets, TLC

\* ------------------------------------------------------------------ bounds
MaxLen == 2
MaxSpans == 2
MaxIds == 2
MaxClock == 2
MaxApiLimit == 6

\* ------------------------------------------------------- program constants
pii_confidence_threshold == 60
pii_vault_ttl == 3600
TickSeconds == 1800
LoopDetectorLimit == 3
max_revision_count == 3
MinRevisionSetting == 1
MaxRevisionSetting == 10
MinRecursionLimit == 5
WorkerRecursionLimit == 10
CliRecursionLimit == 15
SpamConfidence == 100
LlmConfidence == 95
FailConfidence == 0
PromptChars == 3000
InvalidKeyStatus == 403
ProcessingErrorStatus == 500
OkStatus == 200

\* -------------------------------------------------------------------- text
Chr(c) == [k |-> c, ty |-> "-", id |-> 0]
LB == Chr("[")
RB == Chr("]")
Body(ty, id) == [k |-> "body", ty |-> ty, id |-> id]
Token(tok) == <<LB, Body(tok[1], tok[2]), RB>>

Min(a, b) == IF a < b THEN a ELSE b

\* Python text[a:b] for 0 <= a, 0 <= b (indices clamp to the length)
Slice(t, a, b) ==
  IF Min(b, Len(t)) <= a THEN <<>> ELSE SubSeq(t, a + 1, Min(b, Len(t)))

Alphabet == <<"a", "b", "c", "d", "e">>
PrefixText(n) == [i \in 1..n |-> Chr(Alphabet[i])]

EntityTypes == {"PERSON", "PHONE_NUMBER"}
Scores == {50, 60}
Ids == 1..MaxIds

\* what the entity detector can return for a text of length n
SpansOf(n) ==
  { [start |-> s, end |-> e, entity_type |-> ty, score |-> sc] :
      s \in 0..(n - 1), e \in 1..n, ty \in EntityTypes, sc \in Scores }
SpanOK(r) == r.start < r.end
\* the lists the detector can return, up to the order of results with
\* different starts (which sorted() below erases)
DetectorResults(n) ==
  UNION { { rs \in [1..m -> SpansOf(n)] :
              /\ \A i \in 1..m : SpanOK(rs[i])
              /\ \A i \in 1..(m - 1) : rs[i].start <= rs[i + 1].start } :
            m \in 0..MaxSpans }

\* the detections of the messages the workflow is run on: at most one
\* entity per message
WorkflowDetections(n) ==
  { rs \in DetectorResults(n) :
      Len(rs) <= 1 /\ \A i \in 1..Len(rs) : rs[i].entity_type = "PERSON" }

\* sorted(results, key=lambda x: x.start, reverse=True): a stable sort, so
\* results with equal start keep the detector's order
RECURSIVE InsertByStartDesc(_, _)
InsertByStartDesc(sorted, r) ==
  IF sorted = <<>> THEN <<r>>
  ELSE IF Head(sorted).start >= r.start
       THEN <<Head(sorted)>> \o InsertByStartDesc(Tail(sorted), r)
       ELSE <<r>> \o sorted

RECURSIVE SortedByStartDesc(_)
SortedByStartDesc(rs) ==
  IF rs = <<>> THEN <<>>
  ELSE InsertByStartDesc(SortedByStartDesc(SubSeq(rs, 1, Len(rs) - 1)),
                         rs[Len(rs)])

\* ------------------------------------------------------------ crypto codec
\* the keys Fernet.generate_key() can return
GeneratedKeys == {"generated1", "generated2"}

\* the key made from the first API key of the settings
KeyFromSeed(api_key) ==
  IF api_key = "k1" THEN "seed_k1" ELSE "seed_k2"

\* the cipher PIIManager.__init__ builds from settings.api_keys (a sequence,
\* first key first), and whether it logged its warning; generated is the
\* key generate_key() returns, fails whether building the cipher raised
NewCipher(api_keys, generated, fails) ==
  IF fails THEN [cipher |-> "none", warned |-> TRUE]
  ELSE IF api_keys # <<>>
       THEN [cipher |-> KeyFromSeed(api_keys[1]), warned |-> FALSE]
       ELSE [cipher |-> generated, warned |-> FALSE]

\* Fernet: a ciphertext opens only under the key that made it
Encrypt(cipher, plain) == [key |-> cipher, plain |-> plain]
Decrypt(cipher, enc) ==
  IF enc.key = cipher THEN [ok |-> TRUE, val |-> enc.plain]
  ELSE IF cipher = "none"
       THEN [ok |-> TRUE, val |-> <<Chr("ciphertext")>>]
       ELSE [ok |-> FALSE, val |-> <<>>]

\* -------------------------------------------------------------- vault store
\* variant: a failed connection is tried again at the next access
RedisAfterAccess_reconnect(rinit, conn) ==
  IF rinit \in {"uninit", "failed"}
  THEN (IF conn THEN "connected" ELSE "failed")
  ELSE rinit

\* PIIManager.redis: the first access decides the backend
RedisAfterAccess(rinit, conn) ==
  IF rinit = "uninit" THEN (IF conn THEN "connected" ELSE "failed") ELSE rinit

Put(f, key, val) == (key :> val) @@ f

\* redis GET: an entry past its expiry is absent
RedisGet(store, tok, now) ==
  IF tok \in DOMAIN store /\ now < store[tok].expires
  THEN [hit |-> TRUE, data |-> store[tok].data]
  ELSE [hit |-> FALSE, data |-> <<>>]

MemGet(mem, tok) ==
  IF tok \in DOMAIN mem THEN [hit |-> TRUE, data |-> mem[tok]]
  ELSE [hit |-> FALSE, data |-> <<>>]

\* ---------------------------------------------------------------- anonymize
\* variant: a score equal to the threshold is skipped too
Tokenized_above_only(r) == r.score > pii_confidence_threshold

\* the spans the loop does not skip
Tokenized(r) == r.score >= pii_confidence_threshold

\* variant: a span whose record could not be written is left as it is
AnonStep_skip_on_failure(v, r, id, wfail, conn, cipher, trace, now) ==
  IF ~Tokenized(r) THEN v
  ELSE
    LET sensitive == Slice(v.text, r.start, r.end)
        tok == <<r.entity_type, id>>
        data == [value |-> Encrypt(cipher, sensitive),
                 type |-> r.entity_type, trace_id |-> trace]
        ri == RedisAfterAccess(v.rinit, conn)
    IN IF ri = "connected" /\ wfail
       THEN [v EXCEPT !.rinit = ri, !.writes = Append(@, tok)]
       ELSE [text |-> Slice(v.text, 0, r.start) \o Token(tok)
                        \o Slice(v.text, r.end, Len(v.text)),
             rinit |-> ri,
             store |-> IF ri = "connected"
                       THEN Put(v.store, tok,
                                [data |-> data,
                                 expires |-> now + pii_vault_ttl])
                       ELSE v.store,
             mem |-> IF ri = "connected" THEN v.mem
                     ELSE Put(v.mem, tok, data),
             writes |-> Append(v.writes, tok)]

\* one span of the loop body of PIIManager.anonymize
AnonStep(v, r, id, wfail, conn, cipher, trace, now) ==
  IF ~Tokenized(r) THEN v
  ELSE
    LET sensitive == Slice(v.text, r.start, r.end)
        tok == <<r.entity_type, id>>
        data == [value |-> Encrypt(cipher, sensitive),
                 type |-> r.entity_type, trace_id |-> trace]
        ri == RedisAfterAccess(v.rinit, conn)
    IN [text |-> Slice(v.text, 0, r.start) \o Token(tok)
                   \o Slice(v.text, r.end, Len(v.text)),
        rinit |-> ri,
        store |-> IF ri = "connected" /\ ~wfail
                  THEN Put(v.store, tok,
                           [data |-> data, expires |-> now + pii_vault_ttl])
                  ELSE v.store,
        mem |-> IF ri = "connected" THEN v.mem ELSE Put(v.mem, tok, data),
        writes |-> Append(v.writes, tok)]

RECURSIVE AnonLoop(_, _, _, _, _, _, _, _, _)
AnonLoop(v, rs, i, ids, wfails, conn, cipher, trace, now) ==
  IF i > Len(rs) THEN v
  ELSE AnonLoop(AnonStep(v, rs[i], ids[i], wfails[i], conn, cipher, trace, now),
                rs, i + 1, ids, wfails, conn, cipher, trace, now)

\* PIIManager.anonymize(text, trace_id) on vault v = [rinit, store, mem]:
\* the text returned and the vault afterwards
Anonymize(text, results, v, ids, wfails, conn, cipher, trace, now) ==
  IF text = <<>>
  THEN [text |-> text, rinit |-> v.rinit, store |-> v.store, mem |-> v.mem,
        writes |-> <<>>]
  ELSE AnonLoop([text |-> text, rinit |-> v.rinit, store |-> v.store,
                 mem |-> v.mem, writes |-> <<>>],
                SortedByStartDesc(results), 1, ids, wfails, conn, cipher,
                trace, now)

\* -------------------------------------------------------------- deanonymize
IsTokenAt(t, i) ==
  /\ i + 2 <= Len(t)
  /\ t[i] = LB
  /\ t[i + 1].k = "body"
  /\ t[i + 2] = RB

\* re.findall(r"\[[A-Z_]+_[a-f0-9]{8}\]", text): the matches left to right
RECURSIVE FindTokens(_, _)
FindTokens(t, i) ==
  IF i > Len(t) THEN <<>>
  ELSE IF IsTokenAt(t, i)
       THEN <<(<<t[i + 1].ty, t[i + 1].id>>)>> \o FindTokens(t, i + 3)
       ELSE FindTokens(t, i + 1)

\* text.replace(token, value): every non-overlapping occurrence, left to right
RECURSIVE ReplaceAll(_, _, _, _)
ReplaceAll(t, i, tok, val) ==
  IF i > Len(t) THEN <<>>
  ELSE IF IsTokenAt(t, i) /\ t[i + 1] = Body(tok[1], tok[2])
       THEN val \o ReplaceAll(t, i + 3, tok, val)
       ELSE <<t[i]>> \o ReplaceAll(t, i + 1, tok, val)

\* f without key
Without(f, key) == [ k \in DOMAIN f \ {key} |-> f[k] ]

\* variant: a record is deleted once it has been read
DeanonStep_delete_on_read(v, tok, gfail, conn, cipher, now) ==
  LET ri == RedisAfterAccess(v.rinit, conn)
      got == IF ri = "connected"
             THEN (IF gfail THEN [hit |-> FALSE, data |-> <<>>]
                   ELSE RedisGet(v.store, tok, now))
             ELSE MemGet(v.mem, tok)
      dec == IF got.hit THEN Decrypt(cipher, got.data.value)
             ELSE [ok |-> FALSE, val |-> <<>>]
  IN [text |-> IF got.hit /\ dec.ok
               THEN ReplaceAll(v.text, 1, tok, dec.val) ELSE v.text,
      rinit |-> ri,
      store |-> IF got.hit /\ ri = "connected" THEN Without(v.store, tok)
                ELSE v.store,
      mem |-> IF got.hit /\ ri # "connected" THEN Without(v.mem, tok)
              ELSE v.mem]

\* one token of the loop body of PIIManager.deanonymize
DeanonStep(v, tok, gfail, conn, cipher, now) ==
  LET ri == RedisAfterAccess(v.rinit, conn)
      got == IF ri = "connected"
             THEN (IF gfail THEN [hit |-> FALSE, data |-> <<>>]
                   ELSE RedisGet(v.store, tok, now))
             ELSE MemGet(v.mem, tok)
      dec == IF got.hit THEN Decrypt(cipher, got.data.value)
             ELSE [ok |-> FALSE, val |-> <<>>]
  IN [text |-> IF got.hit /\ dec.ok
               THEN ReplaceAll(v.text, 1, tok, dec.val) ELSE v.text,
      rinit |-> ri, store |-> v.store, mem |-> v.mem]

\* variant: the loop left at the first token that is not restored
RECURSIVE DeanonLoop_stop_at_miss(_, _, _, _, _, _, _)
DeanonLoop_stop_at_miss(v, toks, i, gfails, conn, cipher, now) ==
  IF i > Len(toks) THEN v
  ELSE LET w == DeanonStep(v, toks[i], gfails[i], conn, cipher, now)
       IN IF w.text = v.text THEN w
          ELSE DeanonLoop_stop_at_miss(w, toks, i + 1, gfails, conn, cipher,
                                       now)

RECURSIVE DeanonLoop(_, _, _, _, _, _, _)
DeanonLoop(v, toks, i, gfails, conn, cipher, now) ==
  IF i > Len(toks) THEN v
  ELSE DeanonLoop(DeanonStep(v, toks[i], gfails[i], conn, cipher, now),
                  toks, i + 1, gfails, conn, cipher, now)

\* PIIManager.deanonymize(text, trace_id) on vault v
Deanonymize(text, v, gfails, conn, cipher, now) ==
  DeanonLoop([text |-> text, rinit |-> v.rinit, store |-> v.store,
              mem |-> v.mem],
             FindTokens(text, 1), 1, gfails, conn, cipher, now)

\* the records written under one trace id
OwnRecords(f, trace_id, redis) ==
  [ tok \in { k \in DOMAIN f :
                (IF redis THEN f[k].data.trace_id ELSE f[k].trace_id)
                  = trace_id } |-> f[tok] ]

\* variant: only the records written under the caller's trace id are read
DeanonymizeUnder_own_trace(text, trace_id, v, gfails, conn, cipher, now) ==
  LET out == Deanonymize(text,
                         [v EXCEPT
                            !.store = OwnRecords(v.store, trace_id, TRUE),
                            !.mem = OwnRecords(v.mem, trace_id, FALSE)],
                         gfails, conn, cipher, now)
  IN [out EXCEPT !.store = v.store, !.mem = v.mem]

\* PIIManager.deanonymize(text, trace_id): the trace id goes into the log
\* records only
DeanonymizeUnder(text, trace_id, v, gfails, conn, cipher, now) ==
  Deanonymize(text, v, gfails, conn, cipher, now)

\* ------------------------------------------------------------------- state
VARIABLES
  rinit,      \* PIIManager._redis / _redis_initialized: uninit, connected, failed
  store,      \* the Redis vault: token -> [data, expires]
  mem,        \* PIIManager.vault, the in-memory fallback: token -> data
  cipher,     \* PIIManager._cipher: its key, or "none" when Fernet could not be built
  now,        \* wall clock, seconds
  orig,       \* the raw message
  detected,   \* what the entity detector returns for it
  anon,       \* the last anonymize call: [st, text, arg, at, writes, trace]
  restored,   \* the last deanonymize call: [st, text, arg, at, raised, trace]
  env,        \* what the collaborators did: [faulted, collided], and warned:
              \* PIIManager.__init__ logged that encryption is off
  phase,      \* position of a direct caller of the vault
  entry,      \* who invoked the graph: api, worker, cli, app
  recursion_limit,  \* the recursion_limit of the invocation's config
  slack,      \* where the installed host graph version puts the limit
  pc,         \* the node the graph runs next, or END / failed / recursion_error
  step,       \* the host graph's superstep counter
  state,      \* AgentState: the graph's channels
  visited,    \* the nodes run so far, in order
  reads,      \* the input_text values read by Researcher, Writer, Verifier, Support
  verdicts,   \* the final_status each Verifier run returned, in order
  produced,   \* the draft returned by the last Writer or Support run
  calls,      \* collaborator calls made: [classifier, search, deanonymize],
              \* caught: the calls whose exception the node that ran last
              \* caught, named: the categories the classifier's answer to
              \* the node that ran last stated
  shown,      \* the texts given to the classification tiers: [rules, llm]
  api,        \* the FastAPI application: settings, route guard, last response
  leads,      \* the leads table of sales_crm.db and the last save_lead call
  peer        \* a second PIIManager built from the same settings:
              \* [built, api_keys, cipher, rinit, mem]

vaultVars == <<rinit, store, mem, cipher, now>>
callVars == <<orig, detected, anon, restored, env, phase>>
graphVars == <<entry, recursion_limit, slack, pc, step, state, visited, reads,
               verdicts, produced, calls, shown>>
hostVars == <<api, leads, peer>>
vars == <<rinit, store, mem, cipher, now, orig, detected, anon, restored, env,
          phase, entry, recursion_limit, slack, pc, step, state, visited, reads,
          verdicts, produced, calls, shown, api, leads, peer>>

Vault == [rinit |-> rinit, store |-> store, mem |-> mem]

NoCall ==
  [st |-> "none", text |-> <<>>, arg |-> <<>>, at |-> 0, raised |-> {},
   writes |-> <<>>, trace |-> "none"]

\* no request has been answered
NoResponse ==
  [st |-> "none", header |-> "none", status |-> 0, started |-> FALSE,
   api_keys |-> {}, environment |-> "development"]

\* src.api has not been imported
IdleApi ==
  [loaded |-> FALSE, guarded |-> FALSE, api_keys |-> {},
   environment |-> "development", response |-> NoResponse]

\* save_lead has not been called
NoSave ==
  [st |-> "none", company_name |-> "Unknown", category |-> "lead",
   email_draft |-> <<>>, inserted |-> FALSE, failed |-> FALSE]

\* sales_crm.db before init_db
IdleDb == [exists |-> FALSE, rows |-> <<>>, last |-> NoSave]

\* no second PIIManager has been built
NoPeer ==
  [built |-> FALSE, api_keys |-> <<>>, cipher |-> "none", rinit |-> "uninit",
   mem |-> <<>>]

\* neither the API nor the database is used, and there is one PIIManager
IdleHost == api = IdleApi /\ leads = IdleDb /\ peer = NoPeer

\* the tokens of text t whose lookup in the store raised
RaisedFor(t, gfails, ri) ==
  IF ri = "connected"
  THEN { FindTokens(t, 1)[i] : i \in { j \in DOMAIN gfails : gfails[j] } }
  ELSE {}

\* the id and failure choices that matter: one per tokenized span
IdChoices(rs) ==
  { ids \in [1..Len(rs) -> Ids] :
      \A i \in 1..Len(rs) : ~Tokenized(rs[i]) => ids[i] = 1 }
FailChoices(rs) ==
  { fs \in [1..Len(rs) -> BOOLEAN] :
      \A i \in 1..Len(rs) : ~Tokenized(rs[i]) => fs[i] = FALSE }

Distinct(ids, rs) ==
  \A i, j \in 1..Len(rs) :
    (i # j /\ Tokenized(rs[i]) /\ Tokenized(rs[j])
       /\ rs[i].entity_type = rs[j].entity_type) => ids[i] # ids[j]

Fresh(ids, rs) ==
  \A i \in 1..Len(rs) :
    Tokenized(rs[i]) =>
      <<rs[i].entity_type, ids[i]>> \notin (DOMAIN store \cup DOMAIN mem)

\* PIIManager.__init__ under the default settings (no API keys): nothing
\* stored, the cipher built or not
InitVault ==
  /\ store = <<>>
  /\ mem = <<>>
  /\ \E fails \in BOOLEAN :
       LET made == NewCipher(<<>>, "generated1", fails)
       IN /\ cipher = made.cipher
          /\ env = [faulted |-> FALSE, collided |-> FALSE,
                    warned |-> made.warned]
  /\ now = 0
  /\ anon = NoCall
  /\ restored = NoCall

\* --------------------------------------------- the vault called directly
\* pii_manager.anonymize(orig, trace_id=trace_id)
AnonymizeAs(trace_id) ==
  /\ phase = "new"
  /\ UNCHANGED hostVars
  /\ \E conn \in BOOLEAN, raises \in BOOLEAN :
       \E ids \in IdChoices(SortedByStartDesc(detected)),
          wfails \in FailChoices(SortedByStartDesc(detected)) :
         LET rs == SortedByStartDesc(detected)
             out == Anonymize(orig, detected, Vault, ids, wfails, conn,
                              cipher, trace_id, now)
         IN IF raises /\ orig # <<>>
            THEN /\ anon' = [NoCall EXCEPT !.st = "raised", !.arg = orig,
                                           !.at = now, !.trace = trace_id]
                 /\ UNCHANGED <<rinit, store, mem, env>>
            ELSE /\ anon' = [NoCall EXCEPT !.st = "ok", !.text = out.text,
                                           !.arg = orig, !.at = now,
                                           !.writes = out.writes,
                                           !.trace = trace_id]
                 /\ rinit' = out.rinit
                 /\ store' = out.store
                 /\ mem' = out.mem
                 /\ env' = [faulted |->
                              env.faulted \/ (out.rinit = "connected" /\
                                 \E i \in 1..Len(rs) : wfails[i]),
                            collided |->
                              env.collided \/ ~Distinct(ids, rs)
                                \/ ~Fresh(ids, rs),
                            warned |-> env.warned]
  /\ phase' = "anonymized"
  /\ UNCHANGED <<cipher, now, orig, detected, restored>>
  /\ UNCHANGED graphVars

\* pii_manager.anonymize(orig, trace_id="t1"), as the tests call it
AnonymizeCall == AnonymizeAs("t1")

\* the outcomes of the store's GET calls for the tokens of text t: any,
\* or none failing when the store is taken to answer
GetFailures(t, may_fail) ==
  { g \in [1..Len(FindTokens(t, 1)) -> BOOLEAN] :
      may_fail \/ \A i \in DOMAIN g : ~g[i] }

\* pii_manager.deanonymize(anonymized, trace_id=trace_id) by a caller at
\* position at
DeanonymizeFrom(at, trace_id, may_fail) ==
  /\ phase = at
  /\ UNCHANGED hostVars
  /\ anon.st = "ok"
  /\ \E conn \in (IF rinit = "uninit" THEN BOOLEAN ELSE {TRUE}) :
       \E gfails \in GetFailures(anon.text, may_fail) :
         LET out == DeanonymizeUnder(anon.text, trace_id, Vault, gfails, conn,
                                     cipher, now)
         IN /\ restored' = [st |-> "ok", text |-> out.text, arg |-> anon.text,
                            at |-> now,
                            raised |-> RaisedFor(anon.text, gfails, out.rinit),
                            trace |-> trace_id]
            /\ rinit' = out.rinit
            /\ store' = out.store
            /\ mem' = out.mem
            /\ env' = [env EXCEPT !.faulted =
                         env.faulted \/ (out.rinit = "connected" /\
                            \E i \in DOMAIN gfails : gfails[i])]
  /\ phase' = "restored"
  /\ UNCHANGED <<cipher, now, orig, detected, anon>>
  /\ UNCHANGED graphVars

\* pii_manager.deanonymize(anonymized, trace_id=trace_id)
DeanonymizeAs(trace_id) == DeanonymizeFrom("anonymized", trace_id, TRUE)

\* pii_manager.deanonymize(anonymized, trace_id="t1")
DeanonymizeCall == DeanonymizeAs("t1")

\* pii_manager.deanonymize(restored, trace_id="t1"): deanonymize called on
\* what it returned
DeanonymizeAgain ==
  /\ phase = "restored"
  /\ UNCHANGED hostVars
  /\ \E conn \in BOOLEAN :
       \E gfails \in [1..Len(FindTokens(restored.text, 1)) -> BOOLEAN] :
         LET out == Deanonymize(restored.text, Vault, gfails, conn, cipher,
                                now)
         IN /\ restored' = [st |-> "ok", text |-> out.text,
                            arg |-> restored.text, at |-> now,
                            raised |-> RaisedFor(restored.text, gfails,
                                                 out.rinit)]
            /\ rinit' = out.rinit
            /\ store' = out.store
            /\ mem' = out.mem
            /\ env' = [env EXCEPT !.faulted =
                         env.faulted \/ (out.rinit = "connected" /\
                            \E i \in DOMAIN gfails : gfails[i])]
  /\ phase' = "restored_twice"
  /\ UNCHANGED <<cipher, now, orig, detected, anon>>
  /\ UNCHANGED graphVars

\* time passes
Tick ==
  /\ now < MaxClock * TickSeconds
  /\ UNCHANGED hostVars
  /\ now' = now + TickSeconds
  /\ UNCHANGED <<rinit, store, mem, cipher, orig, detected, anon, restored,
                 env, phase>>
  /\ UNCHANGED graphVars

\* -------------------------------------------------------------- the graph
Unset == <<Chr("<unset>")>>
SystemBlock ==
  <<Chr("[SYSTEM BLOCK] Unsafe content removed. Please review manually.")>>

\* a phrase one of router_node's spam_patterns matches
SpamText(n) == [i \in 1..n |-> IF i = n THEN Chr("click here")
                                ELSE Chr(Alphabet[i])]
SpamMatch(t) == \E i \in 1..Len(t) : t[i].k = "click here"

\* a phrase one of writer_node's risky_patterns matches
RiskyMatch(t) == \E i \in 1..Len(t) : t[i].k = "guaranteed"

\* what the LLM can write as a draft
Drafts == { <<Chr("x")>>, <<Chr("guaranteed")>>, Token(<<"PERSON", 1>>) }

\* what the LLM can answer to the classification prompt: which of the
\* tests of router_node its lowercased content passes
LlmAnswers == [lead : BOOLEAN, complaint : BOOLEAN, spam : BOOLEAN,
               tailLead : BOOLEAN, tailComplaint : BOOLEAN]

\* what the LLM can write as its answer: which of the substring, suffix
\* and last-five-words tests of router_node its lowercased content passes
\* (a text has one ending)
LlmContents ==
  { c \in [catLead : BOOLEAN, endLead : BOOLEAN,
           catComplaint : BOOLEAN, endComplaint : BOOLEAN,
           catSpam : BOOLEAN, endSpam : BOOLEAN,
           tailLead : BOOLEAN, tailComplaint : BOOLEAN] :
      /\ ~(c.endLead /\ c.endComplaint)
      /\ ~(c.endLead /\ c.endSpam)
      /\ ~(c.endComplaint /\ c.endSpam) }

\* a content that passes none of the tests
NoContent ==
  [catLead |-> FALSE, endLead |-> FALSE, catComplaint |-> FALSE,
   endComplaint |-> FALSE, catSpam |-> FALSE, endSpam |-> FALSE,
   tailLead |-> FALSE, tailComplaint |-> FALSE]

\* the conditions of router_node's if / elif chain for a content
Tests(c) ==
  [lead |-> c.catLead \/ c.endLead,
   complaint |-> c.catComplaint \/ c.endComplaint,
   spam |-> c.catSpam \/ c.endSpam,
   tailLead |-> c.tailLead,
   tailComplaint |-> c.tailComplaint]

\* the categories a content states in the form the prompt asks for,
\* "Category: <name>"
Named(c) ==
  (IF c.catLead THEN {"lead"} ELSE {})
    \cup (IF c.catComplaint THEN {"complaint"} ELSE {})
    \cup (IF c.catSpam THEN {"spam"} ELSE {})

\* variant: an answer that passes none of the tests left unclassified
ExtractCategory_unknown_default(a) ==
  IF a.lead THEN "lead"
  ELSE IF a.complaint THEN "complaint"
  ELSE IF a.spam THEN "spam"
  ELSE IF a.tailLead THEN "lead"
  ELSE IF a.tailComplaint THEN "complaint"
  ELSE "unknown"

\* router_node: the category extracted from the LLM's content
ExtractCategory(a) ==
  IF a.lead THEN "lead"
  ELSE IF a.complaint THEN "complaint"
  ELSE IF a.spam THEN "spam"
  ELSE IF a.tailLead THEN "lead"
  ELSE IF a.tailComplaint THEN "complaint"
  ELSE "spam"

\* graph.py: the edges
\* variant: everything that is not a lead handed to support
route_after_router_support_by_default(st) ==
  IF st.category = "lead" THEN "researcher" ELSE "support"

\* variant: complaints sent down the sales pipeline
route_after_router_no_support(st) ==
  IF st.category \in {"lead", "complaint"} THEN "researcher" ELSE "END"

route_after_router(st) ==
  IF st.category = "lead" THEN "researcher"
  ELSE IF st.category = "complaint" THEN "support"
  ELSE "END"

\* variant: the loop detector fires one revision later
route_after_verifier_one_later(st) ==
  IF st.final_status = "approved" THEN "final_delivery"
  ELSE IF st.revision_count > LoopDetectorLimit + 1 THEN "final_delivery"
  ELSE "writer"

route_after_verifier(st) ==
  IF st.final_status = "approved" THEN "final_delivery"
  ELSE IF st.revision_count > LoopDetectorLimit THEN "final_delivery"
  ELSE "writer"

AfterResearcher == "writer"
AfterWriter == "verifier"
\* variant: the support pipeline wired straight to the exit
AfterSupport_to_exit == "END"

AfterSupport == "final_delivery"
AfterFinalDelivery == "END"

\* the trace id a node sees: state.get("trace_id", "N/A")
Tid == IF entry = "worker" THEN "N/A" ELSE "t1"

InitialState(text) ==
  [input_text |-> text, category |-> "unset", confidence_score |-> -1,
   revision_count |-> 0, final_status |-> "unset", company_name |-> "unset",
   company_info |-> "unset", email_draft |-> Unset]

\* the recursion_limit each entry point passes to graph.invoke / ainvoke
\* (src/app.py passes none and runs under the host's default of 25, which
\* behaves as the CLI's 15 does)
EntryLimits ==
  { <<"api", l>> : l \in MinRecursionLimit..MaxApiLimit }
    \cup { <<"worker", WorkerRecursionLimit>>, <<"cli", CliRecursionLimit>> }

\* The repository pins no version of the host graph library, and versions
\* differ in whether the limit counts the step that writes the input and
\* the step that finds nothing left to run.
HostSlacks == {-1, 0, 1}

\* The host graph runs one node per superstep; a node's returned dict is
\* what is written to the channels (the dict handed to the node is a copy
\* built from the channels, so assignments to it are not kept).  After a
\* superstep the host raises GraphRecursionError when the step counter has
\* passed the limit, and otherwise runs the next node or stops at END.
Advance(next) ==
  /\ step' = step + 1
  /\ pc' = IF step + 1 > recursion_limit + slack THEN "recursion_error"
           ELSE next

\* variant: the exception swallowed and the message handed on as it is
NodeFails_handed_on ==
  /\ step' = step + 1
  /\ pc' = "support"

\* no collaborator has been called
NoCalls ==
  [classifier |-> 0, search |-> 0, deanonymize |-> 0, caught |-> {},
   named |-> {}]

\* CorrelationIdFilter: the correlation id the handler adds to every log
\* record; only the API's middleware ever sets it
CorrelationId == IF entry = "api" THEN Tid ELSE "N/A"

\* the trace_id in the extra of the record an except block logs, "absent"
\* when the extra has none
ExtraTraceId(site) ==
  IF site \in {"vault_write", "token_lookup"} THEN Tid ELSE "absent"

\* the log records the node that ran last emitted for the exceptions it or
\* the vault caught
Logged ==
  { [site |-> s, trace_id |-> ExtraTraceId(s),
     correlation_id |-> CorrelationId] : s \in calls.caught }

\* a node raised: the invocation ends with that exception
NodeFails ==
  /\ step' = step
  /\ pc' = "failed"

Terminal == {"END", "failed", "recursion_error"}

\* ----------------------------------------------------------------- nodes
\* router_node: anonymize, then the spam rules, then the LLM classifier.
\* llm is what the classifier tier does: "no_client" (get_llm raises),
\* "raises" (llm.invoke raises) or "answers".
RouterOutcomes == {"no_client", "raises", "answers"}

\* the text re.search is given for each of the spam_patterns
RulesInput(raw_text, clean_text) == clean_text

\* variant: the prompt built from the message as received
PromptInput_raw(raw_text, clean_text) == Slice(raw_text, 0, PromptChars)

\* the text put into classify_prompt: clean_text[:3000]
PromptInput(raw_text, clean_text) == Slice(clean_text, 0, PromptChars)

\* variant: the classifier tier alone, without the spam rules
RouterResult_no_rules(clean, llm, answer) ==
  IF llm = "no_client"
  THEN [category |-> "unset", confidence_score |-> -1,
        classifier |-> 0, raised |-> TRUE]
  ELSE IF llm = "raises"
  THEN [category |-> "spam", confidence_score |-> FailConfidence,
        classifier |-> 1, raised |-> FALSE]
  ELSE [category |-> ExtractCategory(answer),
        confidence_score |-> LlmConfidence,
        classifier |-> 1, raised |-> FALSE]

\* what router_node returns for the anonymized text clean
RouterResult(clean, llm, answer) ==
  IF SpamMatch(clean)
  THEN [category |-> "spam", confidence_score |-> SpamConfidence,
        classifier |-> 0, raised |-> FALSE]
  ELSE IF llm = "no_client"
  THEN [category |-> "unset", confidence_score |-> -1,
        classifier |-> 0, raised |-> TRUE]
  ELSE IF llm = "raises"
  THEN [category |-> "spam", confidence_score |-> FailConfidence,
        classifier |-> 1, raised |-> FALSE]
  ELSE [category |-> ExtractCategory(answer),
        confidence_score |-> LlmConfidence,
        classifier |-> 1, raised |-> FALSE]

\* the dict router_node returns (state['input_text'] = clean_text is an
\* assignment to the node's own copy of the state)
RouterUpdate(st, res) ==
  [st EXCEPT !.category = res.category,
             !.confidence_score = res.confidence_score]

Router ==
  /\ pc = "router"
  /\ UNCHANGED hostVars
  /\ visited' = Append(visited, "router")
  /\ \E conn \in BOOLEAN, raises \in BOOLEAN :
       \E ids \in IdChoices(SortedByStartDesc(detected)),
          wfails \in FailChoices(SortedByStartDesc(detected)) :
         LET rs == SortedByStartDesc(detected)
             raw_text == state.input_text
             out == Anonymize(raw_text, detected, Vault, ids, wfails, conn,
                              cipher, Tid, now)
             clean == RulesInput(raw_text, out.text)
         IN IF raises /\ raw_text # <<>>
            THEN /\ anon' = [NoCall EXCEPT !.st = "raised", !.arg = raw_text,
                                           !.at = now]
                 /\ NodeFails
                 /\ UNCHANGED <<rinit, store, mem, env, state, calls, shown>>
            ELSE /\ anon' = [NoCall EXCEPT !.st = "ok", !.text = out.text,
                                           !.arg = raw_text, !.at = now,
                                           !.writes = out.writes]
                 /\ rinit' = out.rinit
                 /\ store' = out.store
                 /\ mem' = out.mem
                 /\ env' = [faulted |->
                              env.faulted \/ (out.rinit = "connected" /\
                                 \E i \in 1..Len(rs) : wfails[i]),
                            collided |->
                              env.collided \/ ~Distinct(ids, rs)
                                \/ ~Fresh(ids, rs),
                            warned |-> env.warned]
                 /\ \E llm \in (IF SpamMatch(clean) THEN {"answers"}
                                ELSE RouterOutcomes) :
                      \E content \in (IF SpamMatch(clean) \/ llm # "answers"
                                      THEN {NoContent} ELSE LlmContents) :
                        LET res == RouterResult(clean, llm, Tests(content))
                        IN /\ calls' = [calls EXCEPT
                                          !.classifier = @ + res.classifier,
                                          !.caught =
                                            (IF res.classifier = 1
                                                /\ llm = "raises"
                                             THEN {"classifier"} ELSE {})
                                              \cup
                                            (IF out.rinit = "connected" /\
                                                \E i \in 1..Len(rs) :
                                                  wfails[i]
                                             THEN {"vault_write"} ELSE {}),
                                          !.named =
                                            IF res.classifier = 1
                                               /\ llm = "answers"
                                            THEN Named(content) ELSE {}]
                           /\ shown' =
                                [rules |-> shown.rules \cup {clean},
                                 llm |-> IF res.classifier = 1
                                         THEN shown.llm \cup
                                                {PromptInput(raw_text,
                                                             out.text)}
                                         ELSE shown.llm]
                           /\ IF res.raised
                              THEN NodeFails /\ UNCHANGED state
                              ELSE /\ state' = RouterUpdate(state, res)
                                   /\ Advance(route_after_router(state'))
  /\ UNCHANGED <<cipher, now, orig, detected, restored, phase, entry,
                 recursion_limit, slack, reads, verdicts, produced>>

\* researcher_node: company name by regex or LLM, then a web search.  Only
\* get_search_tool() is outside its try blocks.
Researcher ==
  /\ pc = "researcher"
  /\ UNCHANGED hostVars
  /\ visited' = Append(visited, "researcher")
  /\ reads' = reads \cup {state.input_text}
  /\ \E tool_ok \in BOOLEAN,
        extract \in {"regex", "llm", "llm_unknown", "llm_raises"},
        search \in {"results", "empty", "raises"} :
       LET company_name ==
             IF extract \in {"regex", "llm"} THEN "Acme" ELSE "Unknown"
           summary ==
             IF company_name # "Unknown" /\ search = "results"
             THEN "search summary" ELSE "No public information found."
       IN IF ~tool_ok
          THEN NodeFails /\ UNCHANGED <<state, calls>>
          ELSE /\ state' = [state EXCEPT !.company_name = company_name,
                                         !.company_info = summary]
               /\ calls' = [calls EXCEPT
                              !.search =
                                @ + (IF company_name # "Unknown" THEN 1 ELSE 0),
                              !.caught =
                                (IF extract = "llm_raises"
                                 THEN {"extract"} ELSE {})
                                  \cup (IF company_name # "Unknown"
                                           /\ search = "raises"
                                        THEN {"search"} ELSE {}),
                              !.named = {}]
               /\ Advance(AfterResearcher)
  /\ UNCHANGED <<vaultVars, callVars, entry, recursion_limit, slack, shown, verdicts,
                 produced>>

\* variant: the draft returned as the LLM wrote it
Guardrail_off(draft) == draft

\* writer_node: the draft after the guardrail
Guardrail(draft) == IF RiskyMatch(draft) THEN SystemBlock ELSE draft

\* variant: the revision counter left as the Writer found it
WriterUpdate_same_count(st, draft) ==
  [st EXCEPT !.email_draft = Guardrail(draft)]

\* variant: the revision counter set as the TEST_MODE branch sets it
WriterUpdate_fixed_count(st, draft) ==
  [st EXCEPT !.email_draft = Guardrail(draft), !.revision_count = 1]

WriterUpdate(st, draft) ==
  [st EXCEPT !.email_draft = Guardrail(draft),
             !.revision_count = st.revision_count + 1]

Writer ==
  /\ pc = "writer"
  /\ UNCHANGED hostVars
  /\ visited' = Append(visited, "writer")
  /\ reads' = reads \cup {state.input_text}
  /\ \/ /\ NodeFails        \* llm.invoke raises
        /\ UNCHANGED <<state, produced>>
     \/ \E draft \in Drafts :
          /\ state' = WriterUpdate(state, draft)
          /\ produced' = state'.email_draft
          /\ Advance(AfterWriter)
  /\ calls' = [calls EXCEPT !.caught = {}, !.named = {}]
  /\ UNCHANGED <<vaultVars, callVars, entry, recursion_limit, slack, shown,
                 verdicts>>

\* verifier_node: approved only when the response contains APPROVE
VerifierStatus(outcome) == IF outcome = "approve" THEN "approved" ELSE "rejected"

Verifier ==
  /\ pc = "verifier"
  /\ UNCHANGED hostVars
  /\ visited' = Append(visited, "verifier")
  /\ reads' = reads \cup {state.input_text}
  /\ \E outcome \in {"approve", "other", "raises"} :
       /\ state' = [state EXCEPT !.final_status = VerifierStatus(outcome)]
       /\ verdicts' = Append(verdicts, VerifierStatus(outcome))
       /\ calls' = [calls EXCEPT !.caught = IF outcome = "raises"
                                            THEN {"verifier"} ELSE {},
                                  !.named = {}]
       /\ Advance(route_after_verifier(state'))
  /\ UNCHANGED <<vaultVars, callVars, entry, recursion_limit, slack, shown,
                 produced>>

\* support_node
Support ==
  /\ pc = "support"
  /\ UNCHANGED hostVars
  /\ visited' = Append(visited, "support")
  /\ reads' = reads \cup {state.input_text}
  /\ \/ /\ NodeFails        \* llm.invoke raises
        /\ UNCHANGED <<state, produced>>
     \/ \E draft \in Drafts :
          /\ state' = [state EXCEPT !.email_draft = draft,
                                    !.final_status = "escalated"]
          /\ produced' = draft
          /\ Advance(AfterSupport)
  /\ calls' = [calls EXCEPT !.caught = {}, !.named = {}]
  /\ UNCHANGED <<vaultVars, callVars, entry, recursion_limit, slack, shown,
                 verdicts>>

\* final_delivery_node: deanonymize the draft
FinalDelivery ==
  /\ pc = "final_delivery"
  /\ UNCHANGED hostVars
  /\ visited' = Append(visited, "final_delivery")
  /\ \E conn \in BOOLEAN :
       \E gfails \in [1..Len(FindTokens(state.email_draft, 1)) -> BOOLEAN] :
         LET out == Deanonymize(state.email_draft, Vault, gfails, conn,
                                cipher, now)
         IN /\ restored' = [st |-> "ok", text |-> out.text,
                            arg |-> state.email_draft, at |-> now,
                            raised |-> RaisedFor(state.email_draft, gfails,
                                                 out.rinit)]
            /\ rinit' = out.rinit
            /\ store' = out.store
            /\ mem' = out.mem
            /\ env' = [env EXCEPT !.faulted =
                         env.faulted \/ (out.rinit = "connected" /\
                            \E i \in DOMAIN gfails : gfails[i])]
            /\ state' = [state EXCEPT !.email_draft = out.text]
            /\ calls' = [calls EXCEPT
                           !.deanonymize = @ + 1,
                           !.caught =
                             IF RaisedFor(state.email_draft, gfails,
                                          out.rinit) # {}
                             THEN {"token_lookup"} ELSE {},
                           !.named = {}]
  /\ Advance(AfterFinalDelivery)
  /\ UNCHANGED <<cipher, now, orig, detected, anon, phase, entry,
                 recursion_limit, slack, reads, verdicts, produced, shown>>

\* time passes while the collaborators are awaited; the clock is read by
\* anonymize (in the Router) and next by deanonymize (in FinalDelivery), so
\* all the time that passes in between is let pass here
Wait ==
  /\ pc = "final_delivery"
  /\ UNCHANGED hostVars
  /\ now < MaxClock * TickSeconds
  /\ now' = now + TickSeconds
  /\ UNCHANGED <<rinit, store, mem, cipher, callVars, graphVars>>

\* graph.invoke(initial_state, config) from one of the entry points, on
\* the module's pii_manager = PIIManager()
Init ==
  /\ InitVault
  /\ cipher # "none"
  /\ rinit = "uninit"
  /\ orig \in {<<>>, PrefixText(MaxLen), SpamText(MaxLen)}
  /\ detected \in WorkflowDetections(Len(orig))
  /\ phase = "graph"
  /\ \E el \in EntryLimits : entry = el[1] /\ recursion_limit = el[2]
  /\ slack \in HostSlacks
  /\ pc = "router"
  /\ step = 1       \* the input has been written by the hidden start step
  /\ state = InitialState(orig)
  /\ visited = <<>>
  /\ reads = {}
  /\ verdicts = <<>>
  /\ produced = Unset
  /\ calls = NoCalls
  /\ shown = [rules |-> {}, llm |-> {}]
  /\ IdleHost

Next ==
  \/ Router
  \/ Researcher
  \/ Writer
  \/ Verifier
  \/ Support
  \/ FinalDelivery
  \/ Wait

Spec == Init /\ [][Next]_vars

\* the entry points whose recursion_limit is written in the code
InitFixedLimit == Init /\ entry \in {"worker", "cli"}

\* graph.invoke runs the next node as soon as the previous one has returned
FairSpec == InitFixedLimit /\ [][Next]_vars /\ WF_vars(Next)

\* ------------------------------------------------ the vault called directly
\* no graph is invoked
IdleGraph ==
  /\ entry = "none"
  /\ recursion_limit = 0
  /\ slack = 0
  /\ pc = "idle"
  /\ step = 0
  /\ state = InitialState(<<>>)
  /\ visited = <<>>
  /\ reads = {}
  /\ verdicts = <<>>
  /\ produced = Unset
  /\ calls = NoCalls
  /\ shown = [rules |-> {}, llm |-> {}]

InitV ==
  /\ InitVault
  /\ rinit \in {"uninit", "connected"}
  /\ orig \in { PrefixText(n) : n \in 0..MaxLen }
  /\ detected \in DetectorResults(Len(orig))
  /\ phase = "new"
  /\ IdleGraph
  /\ IdleHost

NextV == AnonymizeCall \/ DeanonymizeCall \/ Tick

SpecVault == InitV /\ [][NextV]_vars

\* deanonymize called twice in a row, with no time passing in between
NextTwice == AnonymizeCall \/ DeanonymizeCall \/ DeanonymizeAgain

SpecTwice == InitV /\ [][NextTwice]_vars

\* the vault called on detections that do not overlap one another
NonOverlapping(rs) ==
  \A i, j \in DOMAIN rs : i < j => rs[i].end <= rs[j].start

InitApart == InitV /\ NonOverlapping(detected)

\* time passes between the anonymize call and the deanonymize call
TickBetween == phase = "anonymized" /\ Tick

NextApart == AnonymizeCall \/ DeanonymizeCall \/ TickBetween

SpecApart == InitApart /\ [][NextApart]_vars

\* deanonymize called under a trace id of the caller's choice
TraceIds == {"t1", "t2"}

DeanonymizeAny == \E trace_id \in TraceIds : DeanonymizeAs(trace_id)

\* the anonymized text deanonymized once more, the store answering
DeanonymizeMore ==
  \E trace_id \in TraceIds : DeanonymizeFrom("restored", trace_id, FALSE)

NextTraces ==
  AnonymizeCall \/ DeanonymizeAny \/ DeanonymizeMore \/ TickBetween

\* a fresh instance whose cipher was built
InitTraces == InitApart /\ rinit = "uninit" /\ cipher # "none"

SpecTraces == InitTraces /\ [][NextTraces]_vars

\* ------------------------------- two vault instances on one Redis store
\* settings.api_keys: the keys of API_KEYS in order
KeyLists == {<<>>, <<"k1">>, <<"k2">>, <<"k1", "k2">>}

\* two processes import src.security under the same settings: each builds
\* its own PIIManager; both connect to the same Redis
InitShared ==
  /\ store = <<>>
  /\ mem = <<>>
  /\ now = 0
  /\ anon = NoCall
  /\ restored = NoCall
  /\ rinit \in {"uninit", "connected"}
  /\ \E keys \in KeyLists, fails \in BOOLEAN :
       \E g1 \in GeneratedKeys, g2 \in GeneratedKeys :
         LET made == NewCipher(keys, g1, fails)
             other == NewCipher(keys, g2, fails)
         IN /\ cipher = made.cipher
            /\ env = [faulted |-> FALSE, collided |-> FALSE,
                      warned |-> made.warned]
            /\ \E ri \in {"uninit", "connected"} :
                 peer = [built |-> TRUE, api_keys |-> keys,
                         cipher |-> other.cipher, rinit |-> ri,
                         mem |-> <<>>]
  /\ orig \in { PrefixText(n) : n \in 0..MaxLen }
  /\ detected \in DetectorResults(Len(orig))
  /\ NonOverlapping(detected)
  /\ phase = "new"
  /\ IdleGraph
  /\ api = IdleApi
  /\ leads = IdleDb

\* the first instance anonymizes; its Redis connection succeeds
SharedAnonymize ==
  /\ peer.built
  /\ AnonymizeCall
  /\ rinit' = "connected"

\* the second instance deanonymizes what the first returned; its Redis
\* connection succeeds
PeerDeanonymize ==
  /\ peer.built
  /\ phase = "anonymized"
  /\ anon.st = "ok"
  /\ \E gfails \in [1..Len(FindTokens(anon.text, 1)) -> BOOLEAN] :
       LET out == Deanonymize(anon.text,
                              [rinit |-> peer.rinit, store |-> store,
                               mem |-> peer.mem],
                              gfails, TRUE, peer.cipher, now)
       IN /\ restored' = [st |-> "ok", text |-> out.text, arg |-> anon.text,
                          at |-> now,
                          raised |-> RaisedFor(anon.text, gfails, out.rinit)]
          /\ peer' = [peer EXCEPT !.rinit = out.rinit, !.mem = out.mem]
          /\ env' = [env EXCEPT !.faulted =
                       env.faulted \/ \E i \in DOMAIN gfails : gfails[i]]
  /\ phase' = "peer_restored"
  /\ UNCHANGED <<rinit, store, mem, cipher, now, orig, detected, anon>>
  /\ UNCHANGED <<api, leads>>
  /\ UNCHANGED graphVars

NextShared == SharedAnonymize \/ PeerDeanonymize \/ TickBetween

SpecShared == InitShared /\ [][NextShared]_vars

\* ------------------------------------------------------- the HTTP API
ApiKeys == {"k1", "k2"}
\* the X-API-Key header of a request: absent (or empty), or a string
Headers == {"none", "k1", "k2", "other"}
Environments == {"development", "staging", "production"}

\* verify_api_key: the status of the HTTPException it raises, 0 if none
verify_api_key(keys, environment, x_api_key) ==
  IF environment = "development" /\ keys = {} THEN 0
  ELSE IF x_api_key = "none" \/ x_api_key \notin keys THEN InvalidKeyStatus
  ELSE 0

\* settings.api_keys = ..., settings.environment = ...: from the process
\* environment before src.config is imported, or assigned afterwards as
\* the tests do
Configure ==
  /\ \E keys \in SUBSET ApiKeys, e \in Environments :
       api' = [api EXCEPT !.api_keys = keys, !.environment = e]
  /\ UNCHANGED <<vaultVars, callVars, graphVars, leads, peer>>

\* import src.api: the route decorator of process_email is evaluated, with
\* dependencies=[Depends(verify_api_key)] if settings.api_keys else []
LoadApp ==
  /\ ~api.loaded
  /\ api' = [api EXCEPT !.loaded = TRUE, !.guarded = (api.api_keys # {})]
  /\ UNCHANGED <<vaultVars, callVars, graphVars, leads, peer>>

\* POST /process-email (within the rate limit): the route's dependencies,
\* then process_email, which starts a workflow and answers 200, or 500
\* when the workflow raised
PostProcessEmail ==
  /\ api.loaded
  /\ \E x_api_key \in Headers, raised \in BOOLEAN :
       LET denied == IF api.guarded
                     THEN verify_api_key(api.api_keys, api.environment,
                                         x_api_key)
                     ELSE 0
       IN api' = [api EXCEPT !.response =
                    [st |-> "done", header |-> x_api_key,
                     status |-> IF denied # 0 THEN denied
                                ELSE IF raised THEN ProcessingErrorStatus
                                ELSE OkStatus,
                     started |-> (denied = 0),
                     api_keys |-> api.api_keys,
                     environment |-> api.environment]]
  /\ UNCHANGED <<vaultVars, callVars, graphVars, leads, peer>>

\* ------------------------------------------------------ the leads table
Companies == {"Acme", "Unknown"}
SavedCategories == {"lead", "complaint"}

\* variant: a plain INSERT into a table without the UNIQUE constraint
InsertOrIgnore_plain_insert(rows, company_name, category, email_draft, at) ==
  Append(rows, [id |-> Len(rows) + 1, company_name |-> company_name,
                category |-> category, email_draft |-> email_draft,
                created_at |-> at])

\* INSERT OR IGNORE INTO leads (...) with email_draft TEXT UNIQUE and
\* id INTEGER PRIMARY KEY AUTOINCREMENT
InsertOrIgnore(rows, company_name, category, email_draft, at) ==
  IF \E i \in DOMAIN rows : rows[i].email_draft = email_draft
  THEN rows
  ELSE Append(rows, [id |-> Len(rows) + 1, company_name |-> company_name,
                     category |-> category, email_draft |-> email_draft,
                     created_at |-> at])

\* init_db(): CREATE TABLE IF NOT EXISTS; it raises when the database file
\* cannot be opened
InitDb ==
  /\ \E opened \in BOOLEAN :
       leads' = [leads EXCEPT !.exists = leads.exists \/ opened]
  /\ UNCHANGED <<vaultVars, callVars, graphVars, api, peer>>

\* save_lead(company_name, category, email_draft): a sqlite3.Error (no
\* such table, database locked, ...) is caught and printed
SaveLead ==
  /\ \E company_name \in Companies, category \in SavedCategories,
        email_draft \in Drafts, dberr \in BOOLEAN :
       LET failed == dberr \/ ~leads.exists
           rows == IF failed THEN leads.rows
                   ELSE InsertOrIgnore(leads.rows, company_name, category,
                                       email_draft, now)
       IN leads' = [leads EXCEPT
                      !.rows = rows,
                      !.last = [st |-> "done", company_name |-> company_name,
                                category |-> category,
                                email_draft |-> email_draft,
                                inserted |-> Len(rows) > Len(leads.rows),
                                failed |-> failed]]
  /\ UNCHANGED <<vaultVars, callVars, graphVars, api, peer>>

\* requests to the API; no workflow is modelled behind the route
InitApi ==
  /\ InitVault
  /\ cipher # "none"
  /\ rinit = "uninit"
  /\ orig = <<>>
  /\ detected = <<>>
  /\ phase = "api"
  /\ IdleGraph
  /\ \E keys \in SUBSET ApiKeys, e \in Environments :
       api = [IdleApi EXCEPT !.api_keys = keys, !.environment = e]
  /\ leads = IdleDb
  /\ peer = NoPeer

NextApi == Configure \/ LoadApp \/ PostProcessEmail

SpecApi == InitApi /\ [][NextApi]_vars

\* calls of init_db and save_lead
InitDbCalls ==
  /\ InitVault
  /\ cipher # "none"
  /\ rinit = "uninit"
  /\ orig = <<>>
  /\ detected = <<>>
  /\ phase = "db"
  /\ IdleGraph
  /\ IdleHost

NextDb == InitDb \/ SaveLead

SpecDb == InitDbCalls /\ [][NextDb]_vars

\* ================================================================== claims
Count(seq, x) == Cardinality({ i \in DOMAIN seq : seq[i] = x })
Last(seq) == seq[Len(seq)]
IsPrefix(p, q) == Len(p) <= Len(q) /\ \A i \in 1..Len(p) : p[i] = q[i]
AllRejected == \A i \in DOMAIN verdicts : verdicts[i] = "rejected"
Stopped == pc \in Terminal

\* C1: every input_text read by Researcher, Writer, Verifier or Support is
\* the text the Router's anonymize call returned, never the raw message.
C1_DownstreamReadsAnonymized ==
  \A t \in reads : anon.st = "ok" /\ t = anon.text

\* C2 (as claimed): an execution makes at most max_revision_count + 3 node
\* visits.
C2_VisitsWithinClaimedBound ==
  Len(visited) <= max_revision_count + 3

\* C2 (amended): an execution makes at most 11 node visits: Router,
\* Researcher, FinalDelivery and at most LoopDetectorLimit + 1 rounds of
\* Writer and Verifier.
C2_VisitsWithinLoopBound ==
  Len(visited) <= 2 * (LoopDetectorLimit + 1) + 3

C2_Witness ==
  pc = "END" /\ Len(visited) = 2 * (LoopDetectorLimit + 1) + 3

\* C3: every execution started by the worker or the CLI eventually reaches
\* Done (END) unless one of its node calls raises, whatever the Verifier
\* does.
C3_EventuallyDone ==
  <>(pc = "END" \/ pc = "failed")

\* C5: after a Verifier run the next node is FinalDelivery exactly when
\* final_status is approved or revision_count > max_revision_count, for
\* every value the max_revision_count setting may have.
C5_RouteHonoursSetting ==
  (visited # <<>> /\ Last(visited) = "verifier"
     /\ pc \in {"writer", "final_delivery"}) =>
    \A m \in MinRevisionSetting..MaxRevisionSetting :
      (pc = "final_delivery") <=>
        (state.final_status = "approved" \/ state.revision_count > m)

\* C6: a lead execution (worker or CLI) whose Verifier rejected every
\* draft and none of whose node calls raised ends at Done through
\* FinalDelivery, which deanonymized the last Writer's draft.
C6_AlwaysRejectedEndsThroughDelivery ==
  (entry \in {"worker", "cli"} /\ Stopped /\ pc # "failed"
     /\ state.category = "lead" /\ verdicts # <<>> /\ AllRejected) =>
    (pc = "END" /\ Last(visited) = "final_delivery"
       /\ restored.arg = produced)

C8_DeanonymizeOnceAtTheEnd ==
  /\ calls.deanonymize = Count(visited, "final_delivery")
  /\ calls.deanonymize <= 1
  /\ (calls.deanonymize = 1 =>
        /\ Last(visited) = "final_delivery"
        /\ restored.arg = produced
        /\ state.email_draft = restored.text)
  /\ ((pc = "END" /\ state.category \in {"lead", "complaint"}) =>
        calls.deanonymize = 1)
  /\ (state.category = "spam" => calls.deanonymize = 0)

C8_Witness ==
  /\ pc = "END"
  /\ state.category = "lead"
  /\ calls.deanonymize = 1
  /\ Count(visited, "writer") > 1

\* C9: when the anonymized input matches a spam rule the Router returns
\* spam with confidence 1.0 without calling the LLM classifier, and the
\* execution ends there: no other node, no search, no deanonymize.
C9_SpamRuleShortCircuits ==
  (visited # <<>> /\ anon.st = "ok" /\ SpamMatch(anon.text)) =>
    /\ state.category = "spam"
    /\ state.confidence_score = SpamConfidence
    /\ calls.classifier = 0
    /\ visited = <<"router">>
    /\ pc = "END"
    /\ calls.search = 0
    /\ calls.deanonymize = 0

C9_Witness ==
  /\ pc = "END"
  /\ anon.st = "ok"
  /\ SpamMatch(anon.text)
  /\ anon.text # orig

\* C10: a complaint runs Router, Support, FinalDelivery and nothing else:
\* revision_count stays 0, and at Done final_status is escalated and
\* email_draft is the Support draft as FinalDelivery restored it.
C10_ComplaintPath ==
  state.category = "complaint" =>
    /\ IsPrefix(visited, <<"router", "support", "final_delivery">>)
    /\ state.revision_count = 0
    /\ (pc = "END" =>
          /\ visited = <<"router", "support", "final_delivery">>
          /\ state.final_status = "escalated"
          /\ restored.arg = produced
          /\ state.email_draft = restored.text
          /\ (FindTokens(produced, 1) = <<>> =>
                state.email_draft = produced))

C10_Witness ==
  /\ pc = "END"
  /\ state.category = "complaint"
  /\ state.email_draft # Unset

\* C4: deanonymize(anonymize(T)) = T on one vault instance before the TTL
\* has passed, for detections of pairwise different entity types, when no
\* store call failed and no token id was drawn twice.
C4_RoundTrip ==
  (phase = "restored"
     /\ restored.at < anon.at + pii_vault_ttl
     /\ ~env.faulted /\ ~env.collided
     /\ \A i, j \in DOMAIN detected :
          i # j => detected[i].entity_type # detected[j].entity_type) =>
    restored.text = orig

\* C11: the node after the Router is a function of category alone:
\* researcher for lead, support for complaint, END for spam and for every
\* other value; and no step of any other node changes category.
C11_RouteIsFunctionOfCategory ==
  [][ /\ \A c \in {"lead", "complaint", "spam", "unset", "other", ""} :
           route_after_router([category |-> c]) =
             (IF c = "lead" THEN "researcher"
              ELSE IF c = "complaint" THEN "support" ELSE "END")
      /\ (pc = "router" /\ pc' # "failed") =>
           pc' = (IF state'.category = "lead" THEN "researcher"
                  ELSE IF state'.category = "complaint" THEN "support"
                  ELSE "END")
      /\ (pc # "router") => state'.category = state.category ]_vars

C11_Witness ==
  /\ visited = <<"router", "support">>
  /\ state.category = "complaint"
  /\ pc = "final_delivery"

\* C12: the spam rules and the LLM classifier are given only what the
\* Router's anonymize call returned, and nothing before that call has
\* returned: never the raw message.
C12_ClassifiersSeeAnonymized ==
  /\ (shown.rules \cup shown.llm # {}) => anon.st = "ok"
  /\ \A t \in shown.rules : t = anon.text
  /\ \A t \in shown.llm : t = Slice(anon.text, 0, PromptChars)
  /\ (anon.st = "ok" /\ anon.text # orig) =>
        orig \notin (shown.rules \cup shown.llm)

C12_Witness ==
  /\ shown.llm # {}
  /\ shown.rules # {}
  /\ anon.st = "ok"
  /\ anon.text # orig

\* the spans of the message that anonymize does not skip, and the others
Kept ==
  { i \in DOMAIN detected : detected[i].score < pii_confidence_threshold }
Replaced ==
  { i \in DOMAIN detected : detected[i].score >= pii_confidence_threshold }
SpanText(i) == Slice(orig, detected[i].start, detected[i].end)
Occurs(part, t) ==
  \E j \in 0..(Len(t) - Len(part)) : Slice(t, j, j + Len(part)) = part
Chars(t) == { t[j] : j \in DOMAIN t }
StoredValues ==
  { store[tok].data.value.plain : tok \in DOMAIN store }
    \cup { mem[tok].value.plain : tok \in DOMAIN mem }

Issued == FindTokens(anon.text, 1)
Retrievable(tok) == tok \in DOMAIN mem \/ RedisGet(store, tok, now).hit

\* C14: a deanonymize call made once pii_vault_ttl has elapsed since the
\* anonymize call returns its argument unchanged, whichever backend holds
\* the records.
C14_ExpiredTokenStaysLiteral ==
  (phase = "restored" /\ restored.at >= anon.at + pii_vault_ttl) =>
    restored.st = "ok" /\ restored.text = restored.arg

\* C15: anonymize never issues one token twice, so that (for detections
\* that do not overlap, no failed store call, before the TTL) deanonymize
\* restores every token to the characters it replaced.
C15_TokensUnique ==
  (anon.st = "ok" /\ NonOverlapping(detected)) =>
    /\ \A i, j \in DOMAIN Issued : i # j => Issued[i] # Issued[j]
    /\ (phase = "restored" /\ ~env.faulted
          /\ restored.at < anon.at + pii_vault_ttl) =>
         restored.text = orig

\* C16: after anonymize, every token of its output has a record that stays
\* retrievable until the TTL, also when a write to the store failed.
C16_WriteFailureFallsBack ==
  (phase = "anonymized" /\ anon.st = "ok"
     /\ now < anon.at + pii_vault_ttl) =>
    \A i \in DOMAIN Issued : Retrievable(Issued[i])

\* a text with the ids of its tokens left out
Shape(t) == [j \in DOMAIN t |-> IF t[j].k = "body" THEN t[j].ty ELSE t[j].k]

\* the message with every span at or above the threshold replaced by a
\* token of the span's entity type (for spans that do not overlap)
RECURSIVE RedactedShape(_)
RedactedShape(pos) ==
  IF pos >= Len(orig) THEN <<>>
  ELSE IF \E i \in Replaced : detected[i].start = pos
  THEN LET i == CHOOSE i \in Replaced : detected[i].start = pos
       IN <<"[", detected[i].entity_type, "]">>
            \o RedactedShape(detected[i].end)
  ELSE <<orig[pos + 1].k>> \o RedactedShape(pos + 1)

C18_DetectorFailureStopsExecution ==
  (phase = "graph" /\ anon.st = "raised") =>
    /\ anon.text = <<>>
    /\ pc = "failed"
    /\ visited = <<"router">>
    /\ shown = [rules |-> {}, llm |-> {}]
    /\ reads = {}
    /\ calls = NoCalls
    /\ state.category = "unset"
    /\ state.email_draft = Unset

C18_Witness ==
  /\ phase = "graph"
  /\ anon.st = "raised"
  /\ anon.arg = orig
  /\ orig # <<>>
  /\ pc = "failed"

\* the n-th issued token stands for the n-th span at or above the threshold
\* (for spans that do not overlap and ids that do not repeat)
TokenOf(i) == Issued[Cardinality({ j \in Replaced : j <= i })]

\* the record of tok could be read by the deanonymize call
Found(tok) ==
  IF rinit = "connected"
  THEN RedisGet(store, tok, restored.at).hit /\ tok \notin restored.raised
  ELSE tok \in DOMAIN mem

\* the message with each replaced span restored if its record was found
\* and standing as its token if not
RECURSIVE PartlyRestored(_)
PartlyRestored(pos) ==
  IF pos >= Len(orig) THEN <<>>
  ELSE IF \E i \in Replaced : detected[i].start = pos
  THEN LET i == CHOOSE i \in Replaced : detected[i].start = pos
       IN (IF Found(TokenOf(i)) THEN SpanText(i) ELSE Token(TokenOf(i)))
            \o PartlyRestored(detected[i].end)
  ELSE <<orig[pos + 1]>> \o PartlyRestored(pos + 1)

\* C19: deanonymize does not raise; a token with no retrievable record
\* (never written, expired) or whose lookup raised stays in place, and
\* every other token of the same text is restored.
C19_MissLeavesTokenRestoresOthers ==
  (phase = "restored" /\ ~env.collided) =>
    /\ restored.st = "ok"
    /\ Len(Issued) = Cardinality(Replaced)
    /\ restored.text = PartlyRestored(0)

C19_Witness ==
  /\ phase = "restored"
  /\ ~env.collided
  /\ Len(Issued) = 2
  /\ restored.raised # {}
  /\ \E i \in DOMAIN Issued : Found(Issued[i])
  /\ \E i \in DOMAIN Issued : ~Found(Issued[i])

\* C20: deanonymize applied to its own output, on the same vault at the
\* same time, returns that output unchanged (for detections of pairwise
\* different entity types, when no store call failed and no token id was
\* drawn twice).
C20_DeanonymizeIdempotent ==
  (phase = "restored_twice" /\ ~env.faulted /\ ~env.collided
     /\ \A i, j \in DOMAIN detected :
          i # j => detected[i].entity_type # detected[j].entity_type) =>
    restored.text = restored.arg

\* C21: once anonymize has returned, the Router does not raise, whatever
\* the classification tiers do: it returns spam with confidence 0 and the
\* execution ends after the Router with no other node run.
C21_ClassifierFailureResolvesToSpam ==
  (visited # <<>> /\ anon.st = "ok") =>
    /\ ~(pc = "failed" /\ visited = <<"router">>)
    /\ (state.confidence_score = FailConfidence =>
          /\ state.category = "spam"
          /\ visited = <<"router">>
          /\ pc = "END")

\* C22: a search or generation call that raised inside the Researcher has
\* made the Researcher fail: the execution has ended in error there, and no
\* later node has run on the default company name or research summary.
C22_FailedCallFailsNode ==
  (visited # <<>> /\ Last(visited) = "researcher"
     /\ calls.caught \cap {"extract", "search"} # {}) =>
    pc = "failed"

\* C23: a Verifier run never fails the node: it sets final_status to the
\* verdict it returns, approved or rejected, and rejected when its LLM call
\* raised; and in an execution started by the worker or the CLI every
\* Verifier run whose LLM call raised is followed by the Writer until, at
\* the soft-stop, it is followed by FinalDelivery.
C23_VerifierFailureCountsAsRejection ==
  (visited # <<>> /\ Last(visited) = "verifier") =>
    /\ pc # "failed"
    /\ state.final_status = Last(verdicts)
    /\ state.final_status \in {"approved", "rejected"}
    /\ ("verifier" \in calls.caught) =>
         /\ state.final_status = "rejected"
         /\ entry \in {"worker", "cli"} =>
              pc = (IF state.revision_count > LoopDetectorLimit
                    THEN "final_delivery" ELSE "writer")

\* the Writer runs that returned
WriterReturns ==
  Count(visited, "writer")
    - (IF pc = "failed" /\ Last(visited) = "writer" THEN 1 ELSE 0)

\* C24: revision_count starts at 0 and never decreases; a Writer run that
\* returns increases it by exactly 1, so that it equals the number of
\* Writer runs that have returned; no step of another node changes it.
C24_RevisionCountCountsWriterRuns ==
  /\ [](phase = "graph" => state.revision_count = WriterReturns)
  /\ [][ /\ state'.revision_count >= state.revision_count
         /\ (pc = "writer" /\ pc' # "failed") =>
              state'.revision_count = state.revision_count + 1
         /\ (pc # "writer") =>
              state'.revision_count = state.revision_count ]_vars

C24_Witness ==
  /\ pc = "END"
  /\ Count(visited, "writer") = LoopDetectorLimit + 1
  /\ state.revision_count = LoopDetectorLimit + 1

\* C25: final_status is always unset, approved, rejected or escalated and
\* category is always unset, lead, complaint or spam; a Router run that
\* returned has set category to lead, complaint or spam, whatever the
\* classifier answered.
C25_StatusAndCategoryDomains ==
  /\ state.final_status \in {"unset", "approved", "rejected", "escalated"}
  /\ state.category \in {"unset", "lead", "complaint", "spam"}
  /\ (visited # <<>> /\ ~(pc = "failed" /\ visited = <<"router">>)) =>
       state.category \in {"lead", "complaint", "spam"}

C25_Witness ==
  /\ visited = <<"router">>
  /\ pc = "END"
  /\ calls.classifier = 1
  /\ "classifier" \notin calls.caught
  /\ calls.named = {}
  /\ state.category = "spam"

\* C26: when no spam rule matched and the LLM answered, stating one
\* category as "Category: <name>", the Router's category is that category;
\* and it is spam when the answer passes none of the Router's tests.
C26_AnswerIsAuthoritative ==
  (visited # <<>> /\ Last(visited) = "router" /\ calls.classifier = 1
     /\ "classifier" \notin calls.caught) =>
    /\ \A c \in {"lead", "complaint", "spam"} :
         calls.named = {c} => state.category = c
    /\ ExtractCategory(Tests(NoContent)) = "spam"

\* C27: in a lead execution no draft matching a risky-content pattern is
\* ever in email_draft, returned by the Writer or given to FinalDelivery's
\* deanonymize: the Writer returns the system-block message in its place,
\* and that run has incremented revision_count like any other.
C27_RiskyDraftNeverLeavesWriter ==
  state.category = "lead" =>
    /\ ~RiskyMatch(state.email_draft)
    /\ ~RiskyMatch(produced)
    /\ (restored.st = "ok" => ~RiskyMatch(restored.arg))
    /\ (produced = SystemBlock =>
          /\ state.revision_count >= 1
          /\ state.revision_count = WriterReturns)

C27_Witness ==
  /\ state.category = "lead"
  /\ pc = "END"
  /\ verdicts = <<"rejected", "approved">>
  /\ produced = SystemBlock
  /\ restored.arg = SystemBlock
  /\ state.revision_count = 2

\* C28: a request answered while API keys were configured and the
\* environment was production has started a workflow only if its X-API-Key
\* header was one of the keys, and was answered 401 if it was not,
\* whether the keys were configured before or after the application
\* module was loaded.
C28_KeyRequiredInProduction ==
  (api.response.st = "done" /\ api.response.api_keys # {}
     /\ api.response.environment = "production") =>
    /\ api.response.started => api.response.header \in api.response.api_keys
    /\ api.response.header \notin api.response.api_keys =>
         api.response.status = 401

\* the rows of the leads table that hold draft d
RowsWith(d) == { i \in DOMAIN leads.rows : leads.rows[i].email_draft = d }

\* C29: while the database answers, save_lead adds exactly one row
\* (company_name, category, email_draft) when no row holds that draft and
\* leaves the table unchanged when one does, so that after any number of
\* calls each saved draft has exactly one row; a call never raises.
C29_SaveLeadIdempotent ==
  /\ [](/\ \A d \in Drafts : Cardinality(RowsWith(d)) <= 1
        /\ (leads.last.st = "done" /\ ~leads.last.failed) =>
             Cardinality(RowsWith(leads.last.email_draft)) = 1)
  /\ [][ (leads'.last.st = "done" /\ ~leads'.last.failed) =>
           IF \E i \in DOMAIN leads.rows :
                leads.rows[i].email_draft = leads'.last.email_draft
           THEN leads'.rows = leads.rows /\ ~leads'.last.inserted
           ELSE /\ Len(leads'.rows) = Len(leads.rows) + 1
                /\ SubSeq(leads'.rows, 1, Len(leads.rows)) = leads.rows
                /\ Last(leads'.rows).company_name = leads'.last.company_name
                /\ Last(leads'.rows).category = leads'.last.category
                /\ Last(leads'.rows).email_draft = leads'.last.email_draft
                /\ leads'.last.inserted ]_vars

C29_Witness ==
  /\ Len(leads.rows) = 2
  /\ leads.last.st = "done"
  /\ ~leads.last.failed
  /\ ~leads.last.inserted
  /\ leads.rows[1].email_draft = leads.last.email_draft
  /\ leads.rows[1].company_name # leads.last.company_name

\* C30: after anonymize (no failed store call, no token id drawn twice)
\* every value written to the vault is the characters of the original
\* message at [start, end) of a span at or above the threshold, and every
\* such span has its characters in the vault, whatever spans of pairwise
\* different entity types the detector returned.
C30_VaultHoldsOriginalSlices ==
  (phase = "anonymized" /\ anon.st = "ok" /\ ~env.faulted
     /\ ~env.collided
     /\ \A i, j \in DOMAIN detected :
          i # j => detected[i].entity_type # detected[j].entity_type) =>
    StoredValues = { SpanText(i) : i \in Replaced }

\* C31: an anonymize call that returned (on detections that do not
\* overlap) has made one store write per span at or above the threshold,
\* each under a key of its own; with no such span it returned its input
\* and wrote nothing.
C31_OneWritePerSpan ==
  (phase = "anonymized" /\ anon.st = "ok" /\ NonOverlapping(detected)) =>
    /\ Len(anon.writes) = Cardinality(Replaced)
    /\ \A i, j \in DOMAIN anon.writes :
         i # j => anon.writes[i] # anon.writes[j]
    /\ (Replaced = {} =>
          /\ anon.text = orig
          /\ anon.writes = <<>>
          /\ store = <<>>
          /\ mem = <<>>)


\* C32: on a vault whose cipher could not be built, the warning was logged
\* at construction, anonymize still issues one token per span at or above
\* the threshold and stores its values unencrypted, and
\* deanonymize(anonymize(T)) = T before the TTL has passed when no store
\* call failed and no token id was drawn twice.
C32_PlaintextVaultStillWorks ==
  cipher = "none" =>
    /\ env.warned
    /\ (phase = "anonymized" /\ anon.st = "ok") =>
         /\ Len(anon.writes) = Cardinality(Replaced)
         /\ \A tok \in DOMAIN mem : mem[tok].value.key = "none"
         /\ \A tok \in DOMAIN store : store[tok].data.value.key = "none"
    /\ (phase = "restored"
          /\ restored.at < anon.at + pii_vault_ttl
          /\ ~env.faulted /\ ~env.collided) =>
         restored.text = orig


\* C33: a second vault instance built from the same settings and connected
\* to the same store restores what the first one anonymized, before the
\* TTL has passed, when no store call failed and no token id was drawn
\* twice.
C33_PeerRestores ==
  (phase = "peer_restored"
     /\ restored.at < anon.at + pii_vault_ttl
     /\ ~env.faulted /\ ~env.collided) =>
    restored.text = orig


\* C34: in an execution that was given a trace_id, every exception the node
\* that ran last (or the vault it called) caught and did not re-raise has a
\* log record, and that record carries the execution's trace_id, in its
\* extra or as its correlation id.
C34_CaughtExceptionsLoggedWithTraceId ==
  entry # "worker" =>
    \A s \in calls.caught :
      \E r \in Logged :
        /\ r.site = s
        /\ (r.trace_id = Tid \/ r.correlation_id = Tid)


\* C35: the Writer runs at most three times in one execution, and a
\* Verifier run that has rejected the third draft is followed by
\* FinalDelivery, not by the Writer.
C35_WriterRunsAtMostThrice ==
  /\ Count(visited, "writer") <= LoopDetectorLimit
  /\ (visited # <<>> /\ Last(visited) = "verifier"
        /\ Count(visited, "writer") = LoopDetectorLimit
        /\ state.final_status # "approved"
        /\ pc \in {"writer", "final_delivery"}) =>
       pc = "final_delivery"


\* C36: for every entry point and every recursion_limit it may pass, a lead
\* execution whose Verifier rejects every draft never ends by the
\* recursion-limit error: the soft stop sends it to FinalDelivery first.
C36_SoftStopBeforeRecursionLimit ==
  (state.category = "lead" /\ AllRejected) =>
    /\ pc # "recursion_error"
    /\ (pc = "END" => Last(visited) = "final_delivery")


C38_DeanonymizeLeavesVault ==
  [][(phase \in {"anonymized", "restored"} /\ phase' = "restored") =>
       (store' = store /\ mem' = mem)]_vars

C38_Witness ==
  /\ phase = "restored"
  /\ restored.arg # orig
  /\ restored.text = orig
  /\ Issued # <<>>
  /\ \A i \in DOMAIN Issued : Retrievable(Issued[i])


\* C39: once a vault instance has made its first store access its backend
\* never changes: after a failed connection every call reads and writes
\* the in-memory map and the durable store is left alone, no reconnection
\* being tried; after a successful one every call reads and writes the
\* durable store and the in-memory map is left alone.
C39_BackendChosenOnce ==
  [][/\ (rinit # "uninit" => rinit' = rinit)
     /\ (rinit' = "failed" => store' = store)
     /\ (rinit' = "connected" => mem' = mem)
     /\ (rinit' = "uninit" => (store' = store /\ mem' = mem))]_vars

C39_Witness ==
  /\ phase = "restored"
  /\ rinit = "failed"
  /\ store = <<>>
  /\ mem # <<>>
  /\ restored.arg # orig
  /\ restored.text = orig

====
